---- MODULE Spec2Model ----
(***************************************************************************)
(* A model of medication.py (MedRec): the Medication / ParsedMedication    *)
(* classes.  Python strings are modelled as sequences of one-character     *)
(* strings, None as the value None, exceptions as the err field of the     *)
(* outcome of the last call, and mutable containers (sets, lists) as       *)
(* objects on a heap so that copy.copy and aliasing are visible.           *)
(***************************************************************************)
EXTENDS Integers, Sequences, FiniteSets, TLC

VARIABLES self, heap, held, formulation_regexp_cache, times_regexp_cache,
          builds, outcome, observed

vars == <<self, heap, held, formulation_regexp_cache, times_regexp_cache,
          builds, outcome, observed>>

\* None where a text or a list is expected: no text is a sequence holding
\* this element, so None differs from every text
None == <<"None">>

\* ---------------------------------------------------------------- bounds
\* longest text the Field Normalizer is applied to exhaustively
MaxLen == 3
\* heap cells: the live containers of one record, its caller and one call
HeapSize == 6

\* ------------------------------------------------------- string primitives
UpperPairs ==
  { <<"a", "A">>, <<"b", "B">>, <<"c", "C">>, <<"d", "D">>, <<"e", "E">>,
    <<"f", "F">>, <<"g", "G">>, <<"h", "H">>, <<"i", "I">>, <<"j", "J">>,
    <<"k", "K">>, <<"l", "L">>, <<"m", "M">>, <<"n", "N">>, <<"o", "O">>,
    <<"p", "P">>, <<"q", "Q">>, <<"r", "R">>, <<"s", "S">>, <<"t", "T">>,
    <<"u", "U">>, <<"v", "V">>, <<"w", "W">>, <<"x", "X">>, <<"y", "Y">>,
    <<"z", "Z">> }

\* str.upper() on one character
upper(c) == IF \E p \in UpperPairs : p[1] = c
            THEN (CHOOSE p \in UpperPairs : p[1] = c)[2]
            ELSE c

\* str.lower() on one character
lower(c) == IF \E p \in UpperPairs : p[2] = c
            THEN (CHOOSE p \in UpperPairs : p[2] = c)[1]
            ELSE c

Upper(s) == [i \in 1..Len(s) |-> upper(s[i])]
Lower(s) == [i \in 1..Len(s) |-> lower(s[i])]

Whitespace == {" "}

RECURSIVE LStrip(_, _)
LStrip(s, cs) == IF s # <<>> /\ Head(s) \in cs THEN LStrip(Tail(s), cs) ELSE s

RECURSIVE RStrip(_, _)
RStrip(s, cs) == IF s # <<>> /\ s[Len(s)] \in cs
                 THEN RStrip(SubSeq(s, 1, Len(s) - 1), cs) ELSE s

\* str.strip(chars): removes leading and trailing characters that are in chars
Strip(s, cs) == RStrip(LStrip(s, cs), cs)

\* str.split(): the list of maximal runs of non-whitespace characters
RECURSIVE Split(_)
Split(s) ==
  LET t == LStrip(s, Whitespace) IN
  IF t = <<>> THEN <<>>
  ELSE LET n == IF \E i \in 1..Len(t) : t[i] \in Whitespace
                THEN (CHOOSE i \in 1..Len(t) :
                        /\ t[i] \in Whitespace
                        /\ \A j \in 1..(i - 1) : t[j] \notin Whitespace) - 1
                ELSE Len(t)
       IN <<SubSeq(t, 1, n)>> \o Split(SubSeq(t, n + 1, Len(t)))

\* ' '.join(words)
RECURSIVE Join(_)
Join(ws) == IF ws = <<>> THEN <<>>
            ELSE IF Len(ws) = 1 THEN ws[1]
            ELSE ws[1] \o <<" ">> \o Join(Tail(ws))

\* a in b  for strings: a is a contiguous substring of b
Contains(b, a) == \E i \in 0..(Len(b) - Len(a)) : SubSeq(b, i + 1, i + Len(a)) = a

\* ------------------------------------------------ configuration (constants.py)
UNDESIRABLE_PUNCTUATION == <<".", ",">>

\* -------------------------------------------------------- Field Normalizer
RECURSIVE StripEach(_, _)
StripEach(s, puncts) == IF puncts = <<>> THEN s
                        ELSE StripEach(Strip(s, {Head(puncts)}), Tail(puncts))

_normalize_field(field) ==
  LET my_field == Strip(Upper(field), Whitespace)
      unpunct  == StripEach(my_field, UNDESIRABLE_PUNCTUATION)
  IN Join(Split(unpunct))

\* ------------------------------------------------------------- Line Parser
Digits    == {"0", "1", "2", "3", "4", "5", "6", "7", "8", "9"}
DoseChars == Digits \cup {".", "/"}

\* (?P<units>m?c?k?g|m?d?l), in the order the alternation tries them
UnitWords == << <<"M","C","K","G">>, <<"M","C","G">>, <<"M","K","G">>, <<"M","G">>,
                <<"C","K","G">>, <<"C","G">>, <<"K","G">>, <<"G">>,
                <<"M","D","L">>, <<"M","L">>, <<"D","L">>, <<"L">> >>

\* number of consecutive characters of cs in s from position p on
RECURSIVE RunFrom(_, _, _)
RunFrom(s, p, cs) == IF p <= Len(s) /\ s[p] \in cs THEN 1 + RunFrom(s, p + 1, cs) ELSE 0

\* the units alternative that matches at position q (re.IGNORECASE), or <<>>
UnitAt(s, q) ==
  LET fits(u) == q + Len(u) - 1 <= Len(s)
                 /\ Upper(SubSeq(s, q, q + Len(u) - 1)) = u
  IN IF \E k \in 1..Len(UnitWords) : fits(UnitWords[k])
     THEN UnitWords[CHOOSE k \in 1..Len(UnitWords) :
                       /\ fits(UnitWords[k])
                       /\ \A j \in 1..(k - 1) : ~fits(UnitWords[j])]
     ELSE <<>>

\* The pattern after the name group, as the runs it takes in turn:
\*   \s+   [\d/.]+   \s+   m?c?k?g|m?d?l   \s*
\* the number of characters run k takes at position p
RunLength(s, p, k) ==
  CASE k = 1 -> RunFrom(s, p, Whitespace)
    [] k = 2 -> RunFrom(s, p, DoseChars)
    [] k = 3 -> RunFrom(s, p, Whitespace)
    [] k = 4 -> Len(UnitAt(s, p))
    [] k = 5 -> RunFrom(s, p, Whitespace)

\* the positions at which runs k..5 start, followed by the position after
\* the last of them
RECURSIVE Boundaries(_, _, _)
Boundaries(s, p, k) ==
  IF k > 5 THEN <<p>>
  ELSE <<p>> \o Boundaries(s, p + RunLength(s, p, k), k + 1)

\* One attempt of the regular expression with the leading \s* taking k0
\* characters and the lazy name group ending at position i.  The greedy
\* groups take maximal runs; the lazy formulation stops at the first ';'.
TryMatch(s, k0, i) ==
  LET b == Boundaries(s, i + 1, 1)
  IN IF /\ b[2] > b[1] /\ b[3] > b[2] /\ b[4] > b[3] /\ b[5] > b[4]
        /\ \E k \in b[6]..Len(s) : s[k] = ";"
     THEN LET semi == CHOOSE k \in b[6]..Len(s) :
                        s[k] = ";" /\ \A j \in b[6]..(k - 1) : s[j] # ";"
          IN << << SubSeq(s, k0 + 1, i), SubSeq(s, b[2], b[3] - 1),
                   SubSeq(s, b[4], b[5] - 1), SubSeq(s, b[6], semi - 1),
                   SubSeq(s, semi + 1, Len(s)) >> >>
     ELSE <<>>

\* the attempt the regular-expression engine reaches first among those that
\* match: \s* is greedy, the name group is lazy
first_match(s, cands) ==
  IF cands = {} THEN <<>>
  ELSE LET best == CHOOSE c \in cands :
                     \A d \in cands : \/ c[1] > d[1]
                                      \/ (c[1] = d[1] /\ c[2] <= d[2])
       IN TryMatch(s, best[1], best[2])

\* medication_parser.findall(s): the empty list, or a list with one 5-tuple
\* (name, dose, units, formulation, instructions); the pattern is anchored
\* at ^, so there is at most one match.
medication_parser(s) ==
  first_match(s, { c \in (0..RunFrom(s, 1, Whitespace)) \X (0..Len(s)) :
                     c[2] >= c[1] /\ TryMatch(s, c[1], c[2]) # <<>> })

\* --------------------------------------------------------------- the object
\* An instance is the record of its attribute values plus __dict__, the set
\* of attributes that exist: reading an attribute outside __dict__ raises
\* AttributeError.  Mutable containers are held by heap address (NullAddr
\* for None); the mapping context is held by name (NoContext for None).
NullAddr  == 0
NoContext == "None"
NoError   == "None"
NoObject  == [__dict__ |-> {}]

NewObject == [__dict__ |-> {},
              _original_string |-> None, _normalized_string |-> None,
              _name |-> None, _dose |-> None, _units |-> None,
              _formulation |-> None, _instructions |-> None, _parsed |-> FALSE,
              _generic_formula |-> NullAddr, _norm_dose |-> None,
              _cuis |-> NullAddr, _context |-> NoContext]

\* self.a = f[a] for every attribute a of the record f
Assign(o, f) == [a \in DOMAIN o |->
                   IF a = "__dict__" THEN o[a] \cup DOMAIN f
                   ELSE IF a \in DOMAIN f THEN f[a] ELSE o[a]]

HasAttr(o, a) == a \in o["__dict__"]

\* Medication.from_text
Medication_from_text(o, med_line) ==
  LET orig == Strip(med_line, Whitespace)
  IN Assign(o, [_original_string |-> orig, _normalized_string |-> _normalize_field(orig)])

\* the part of ParsedMedication.from_text after the match: o is the object
\* and med the list findall returned
from_text_match(o, med) ==
  IF Len(med) > 0
  THEN [err |-> NoError,
        obj |-> Assign(o, [_name |-> _normalize_field(med[1][1]),
                           _dose |-> _normalize_field(med[1][2]),
                           _units |-> _normalize_field(med[1][3]),
                           _formulation |-> _normalize_field(med[1][4]),
                           _instructions |-> _normalize_field(med[1][5]),
                           _parsed |-> TRUE])]
  ELSE \* logging.debug(..., med_line, self._parsed) evaluates self._parsed
       IF HasAttr(o, "_parsed")
       THEN [err |-> NoError, obj |-> o]
       ELSE [err |-> "AttributeError", obj |-> o]

\* the match of the normalized text of o
med_match_of(o) == from_text_match(o, medication_parser(o["_normalized_string"]))

\* ParsedMedication.from_text: the object afterwards and the exception raised
from_text(o, med_line) == med_match_of(Medication_from_text(o, med_line))

\* Medication.__init__
Medication__init__(o, original_string) ==
  IF original_string # None
  THEN \* dispatches to the subclass method
       from_text(Assign(o, [_original_string |-> None, _normalized_string |-> None]),
                 original_string)
  ELSE [err |-> NoError,
        obj |-> Assign(o, [_original_string |-> None, _normalized_string |-> None])]

\* ParsedMedication.__init__ after super().__init__ returned base
init_fields(base, med_line, context) ==
  IF base.err # NoError THEN base
  ELSE IF med_line # None
  THEN from_text(Assign(base.obj, [_name |-> None, _dose |-> None, _units |-> None,
                                   _formulation |-> None, _instructions |-> None,
                                   _parsed |-> FALSE, _generic_formula |-> NullAddr,
                                   _norm_dose |-> None, _cuis |-> NullAddr,
                                   _context |-> context]),
                 med_line)
  ELSE [err |-> NoError,
        obj |-> Assign(base.obj, [_name |-> None, _dose |-> None, _units |-> None,
                                  _formulation |-> None, _instructions |-> None,
                                  _parsed |-> FALSE, _generic_formula |-> NullAddr,
                                  _norm_dose |-> None, _cuis |-> NullAddr,
                                  _context |-> context])]

\* ParsedMedication.__init__
ParsedMedication__init__(med_line, context) ==
  init_fields(Medication__init__(NewObject, med_line), med_line, context)

\* ---------------------------------------------- number <-> text conversions
DigitSeq == <<"0", "1", "2", "3", "4", "5", "6", "7", "8", "9">>

DigitVal(c) == (CHOOSE k \in 1..10 : DigitSeq[k] = c) - 1

\* int(text) for a text of decimal digits
RECURSIVE ParseInt(_)
ParseInt(t) == IF t = <<>> THEN 0
               ELSE 10 * ParseInt(SubSeq(t, 1, Len(t) - 1)) + DigitVal(t[Len(t)])

\* '%d' % n  for n >= 0
RECURSIVE FormatInt(_)
FormatInt(n) == IF n < 10 THEN <<DigitSeq[n + 1]>>
                ELSE FormatInt(n \div 10) \o <<DigitSeq[(n % 10) + 1]>>

\* '%s' % v  /  str(v): None prints as the text None
Str(v) == IF v = None THEN <<"N", "o", "n", "e">> ELSE v

\* ------------------------------------- dose configuration (constants.py)
\* Pattern texts are sequences of characters in which the element "%FORM%"
\* stands for the placeholder text and "(\\d+)" for that regular-expression
\* group.  A value of -1 marks a regular expression.
FORM   == "%FORM%"
NUMBER == "(\\d+)"

physical_forms == << <<"T","A","B","S">>, <<"T","A","B">>, <<"C","A","P">> >>

known_number_of_doses ==
  << << <<NUMBER, " ", FORM>>, -1 >>,
     << <<"T","W","O"," ", FORM>>, 2 >> >>

known_times_per_day ==
  << << <<"Q","D">>, 1 >>,
     << <<"B","I","D">>, 2 >>,
     << <<NUMBER, "X">>, -1 >> >>

\* ------------------------------------------------------------ Pattern Cache
\* k.replace('%FORM%', formulation)
RECURSIVE ReplaceForm(_, _)
ReplaceForm(k, formulation) ==
  IF k = <<>> THEN <<>>
  ELSE (IF Head(k) = FORM THEN formulation ELSE <<Head(k)>>)
       \o ReplaceForm(Tail(k), formulation)

RECURSIVE build_regular_expressions(_, _)
build_regular_expressions(list_of_tuples, formulation) ==
  IF list_of_tuples = <<>> THEN <<>>
  ELSE << <<ReplaceForm(Head(list_of_tuples)[1], formulation), Head(list_of_tuples)[2]>> >>
       \o build_regular_expressions(Tail(list_of_tuples), formulation)

EmptyDict == [k \in {} |-> <<>>]

DictSet(d, key, value) == [k \in (DOMAIN d) \cup {key} |-> IF k = key THEN value ELSE d[k]]

\* ------------------------------------------------------- regular expressions
\* Matching pattern text pat at position p of s: the position after the
\* match and the text of the group, the group being greedy.
RECURSIVE ReMatch(_, _, _)
ReMatch(pat, s, p) ==
  IF pat = <<>> THEN [ok |-> TRUE, end |-> p, group |-> <<>>]
  ELSE IF Head(pat) = NUMBER
  THEN LET n    == RunFrom(s, p, Digits)
           good == { k \in 1..n : ReMatch(Tail(pat), s, p + k).ok }
           k    == CHOOSE x \in good : \A y \in good : x >= y
       IN IF good = {} THEN [ok |-> FALSE, end |-> p, group |-> <<>>]
          ELSE [ok |-> TRUE, end |-> ReMatch(Tail(pat), s, p + k).end,
                group |-> SubSeq(s, p, p + k - 1)]
  ELSE IF p <= Len(s) /\ s[p] = Head(pat)
  THEN ReMatch(Tail(pat), s, p + 1)
  ELSE [ok |-> FALSE, end |-> p, group |-> <<>>]

\* re.findall(regexp, s): the groups of the matches, leftmost first; only
\* its emptiness and its first element are used.
re_findall_first(regexp, s) ==
  LET starts == { p \in 1..(Len(s) + 1) : ReMatch(regexp, s, p).ok }
      first  == CHOOSE p \in starts : \A q \in starts : p <= q
  IN IF starts = {} THEN <<>> ELSE <<ReMatch(regexp, s, first).group>>

\* the loop leaving at its first match
RECURSIVE match_patterns_first(_, _, _)
match_patterns_first(regexps, instructions, found) ==
  IF regexps = <<>> \/ found # <<>> THEN found
  ELSE LET regexp == Head(regexps)[1]
           num    == Head(regexps)[2]
           result == re_findall_first(regexp, instructions)
           now    == IF num = -1
                     THEN (IF Len(result) > 0 THEN <<ParseInt(result[1])>> ELSE found)
                     ELSE (IF Contains(instructions, regexp) THEN <<num>> ELSE found)
       IN match_patterns_first(Tail(regexps), instructions, now)

\* the  for regexp, num in regexps  loop of normalize_dose: the value left
\* in the loop variable: <<n>>, or <<>> for None when no pattern matched
RECURSIVE match_patterns(_, _, _)
match_patterns(regexps, instructions, found) ==
  IF regexps = <<>> THEN found
  ELSE LET regexp == Head(regexps)[1]
           num    == Head(regexps)[2]
           result == re_findall_first(regexp, instructions)
           now    == IF num = -1
                     THEN (IF Len(result) > 0 THEN <<ParseInt(result[1])>> ELSE found)
                     ELSE (IF Contains(instructions, regexp) THEN <<num>> ELSE found)
       IN match_patterns(Tail(regexps), instructions, now)

\* the loop testing every known form against the formulation it started with
canonical_form_stored(forms, form) ==
  LET inside == { i \in 1..Len(forms) : Contains(form, forms[i]) }
  IN IF inside = {} THEN form
     ELSE forms[CHOOSE i \in inside : \A j \in inside : j <= i]

\* the  for known_formulation in physical_forms  loop of normalize_dose
RECURSIVE canonical_form(_, _)
canonical_form(forms, form) ==
  IF forms = <<>> THEN form
  ELSE canonical_form(Tail(forms),
                      IF Contains(form, Head(forms)) THEN Head(forms) ELSE form)

\* ------------------------------------------------------------ Dose Normalizer
Bump(b, key) == [k \in (DOMAIN b) \cup {key} |->
                   IF k = key THEN (IF key \in DOMAIN b THEN b[key] + 1 ELSE 1) ELSE b[k]]

\* a lookup that never finds the key
cached_regexps_rebuild(cache, list_of_tuples, form) ==
  LET regexps == build_regular_expressions(list_of_tuples, form)
  IN [regexps |-> regexps, cache |-> DictSet(cache, form, regexps), built |-> TRUE]

\* if form in cache: regexps = cache[form]  else: regexps = build...(...),
\* cache[form] = regexps
cached_regexps(cache, list_of_tuples, form) ==
  IF form \in DOMAIN cache
  THEN [regexps |-> cache[form], cache |-> cache, built |-> FALSE]
  ELSE LET regexps == build_regular_expressions(list_of_tuples, form)
       IN [regexps |-> regexps, cache |-> DictSet(cache, form, regexps), built |-> TRUE]

\* ParsedMedication.normalize_dose: the object, the two class-level caches
\* and the count of build_regular_expressions calls afterwards, the
\* exception raised, the form that was looked up and the lists built by
\* this call.  fc, tc: formulation_regexp_cache, times_regexp_cache.
normalize_dose(o, fc, tc, b) ==
  LET stored == o["_formulation"]
      form   == canonical_form(physical_forms, stored)
      q      == cached_regexps(fc, known_number_of_doses, form)
      b1     == IF q.built THEN Bump(b, <<"known_number_of_doses", form>>) ELSE b
      instr  == o["_instructions"]
      found  == match_patterns(q.regexps, instr, <<>>)
      number_of_units == IF found = <<>> THEN 1 ELSE found[1]
      t      == cached_regexps(tc, known_times_per_day, form)
      b2     == IF t.built THEN Bump(b1, <<"known_times_per_day", form>>) ELSE b1
      times  == match_patterns(t.regexps, instr, <<>>)
      times_per_day == IF times = <<>> THEN 1 ELSE times[1]
      \* '%s %s*%d*%d' % (str(self.dose), self.units, times_per_day,
      \* number_of_units): %s accepts any text and None, so the ValueError
      \* handler of the source is never entered
      text   == Str(o["_dose"]) \o <<" ">> \o Str(o["_units"]) \o <<"*">>
                \o FormatInt(times_per_day) \o <<"*">> \o FormatInt(number_of_units)
  IN IF stored = None /\ physical_forms # <<>>
     THEN \* known_formulation in None
          [err |-> "TypeError", obj |-> o, fc |-> fc, tc |-> tc, builds |-> b,
           form |-> <<>>, built |-> {}]
     ELSE IF instr = None /\ q.regexps # <<>>
     THEN \* re.findall(regexp, None)  /  regexp in None
          [err |-> "TypeError", obj |-> o, fc |-> q.cache, tc |-> tc, builds |-> b1,
           form |-> <<form>>,
           built |-> IF q.built THEN {"known_number_of_doses"} ELSE {}]
     ELSE [err |-> NoError, obj |-> [o EXCEPT !["_norm_dose"] = text],
           fc |-> q.cache, tc |-> t.cache, builds |-> b2, form |-> <<form>>,
           built |-> (IF q.built THEN {"known_number_of_doses"} ELSE {})
                     \cup (IF t.built THEN {"known_times_per_day"} ELSE {})]

\* return self._norm_dose, after a call that left r
returning_norm_dose(r) ==
  [k \in (DOMAIN r) \cup {"ret"} |->
     IF k = "ret" THEN (IF r.err = NoError THEN r.obj["_norm_dose"] ELSE None)
     ELSE r[k]]

\* the normalized_dose property (a str is immutable: copy.copy returns it)
normalized_dose(o, fc, tc, b) ==
  IF o["_norm_dose"] = None
  THEN returning_norm_dose(normalize_dose(o, fc, tc, b))
  ELSE returning_norm_dose([err |-> NoError, obj |-> o, fc |-> fc, tc |-> tc,
                            builds |-> b, form |-> <<>>, built |-> {}])

\* ------------------------------------------------------------------ the heap
\* Sets and lists are objects: a cell holds the container's kind and value.
Addr     == 1..HeapSize
FreeCell == [kind |-> "free", val |-> {}]
SetCell(v)  == [kind |-> "set", val |-> v]
ListCell(v) == [kind |-> "list", val |-> v]

EmptyHeap == [a \in Addr |-> FreeCell]

\* a new object holding cell: the heap afterwards and the object's address
Alloc(h, cell) ==
  LET a == CHOOSE x \in Addr : h[x].kind = "free"
                               /\ \A y \in Addr : h[y].kind = "free" => x <= y
  IN [heap |-> [h EXCEPT ![a] = cell], addr |-> a]

\* handing out the object itself
copy_alias(h, a) == [heap |-> h, addr |-> a]

\* copy.copy(x) for x a set, a list or None: a new object with equal value
copy_copy(h, a) == IF a = NullAddr THEN [heap |-> h, addr |-> NullAddr]
                   ELSE Alloc(h, h[a])

\* ------------------------------------------ Mapping Context (external data)
MakeDict(pairs) == [k \in {p[1] : p \in pairs} |-> (CHOOSE p \in pairs : p[1] = k)[2]]

ASA == <<"A","S","A">>
PCM == <<"P","C","M">>
ZZ  == <<"Z","Z">>
ASPIRIN == <<"A","S","P","I","R","I","N">>

\* abbreviations (constants.py)
abbreviations == MakeDict({ <<ASA, ASPIRIN>> })

\* a MappingContext: concept_names, rxnorm.formulas (the .name of each
\* ingredient) and rxnorm.relations.  ASA has two concepts, of which only C1
\* has ingredients; PCM has an empty concept set; other names are unknown.
MappingContext ==
  [concept_names |-> MakeDict({ << <<"a","s","a">>, {"C1", "C2"} >>,
                                << <<"p","c","m">>, {} >> }),
   formulas      |-> MakeDict({ << "C1", << <<"A","s","a"," ","@","8","1">>,
                                            <<"c","a","f">> >> >> }),
   relations     |-> << [relation |-> "tradename_of", _concept1 |-> "C1", _concept2 |-> "T1"],
                        [relation |-> "isa",          _concept1 |-> "C1", _concept2 |-> "X1"],
                        [relation |-> "tradename_of", _concept1 |-> "C2", _concept2 |-> "T2"] >>]

Contexts == {"rxnorm"}
Deref(m) == MappingContext

\* ----------------------------------------------------------- Generic Resolver
\* drug_name.split('@')[0]
BeforeAt(t) == IF \E i \in 1..Len(t) : t[i] = "@"
               THEN SubSeq(t, 1, (CHOOSE i \in 1..Len(t) :
                                    t[i] = "@" /\ \A j \in 1..(i - 1) : t[j] # "@") - 1)
               ELSE t

_normalize_drug_name(drug_name) ==
  LET truncated  == Upper(Strip(BeforeAt(drug_name), Whitespace))
      components == Split(truncated)
      final_version == [i \in 1..Len(components) |->
                          IF components[i] \in DOMAIN abbreviations
                          THEN abbreviations[components[i]] ELSE components[i]]
  IN Join(final_version)

\* CUIs without its  if mappings is None: raise
CUIs_unchecked(o, h, mappings) ==
  LET m   == IF mappings = NoContext THEN o["_context"] ELSE mappings
      out == copy_copy(h, o["_cuis"])
  IN IF m = NoContext /\ o["_cuis"] = NullAddr /\ o["_name"] # None
     THEN \* None.concept_names
          [err |-> "AttributeError", obj |-> o, heap |-> h, ret |-> NullAddr]
     ELSE [err |-> NoError, obj |-> o, heap |-> out.heap, ret |-> out.addr]

\* ParsedMedication.CUIs(mappings): ret is the address of the returned set
CUIs(o, h, mappings) ==
  LET m       == IF mappings = NoContext THEN o["_context"] ELSE mappings
      key     == Lower(o["_name"])
      resolve == /\ o["_cuis"] = NullAddr
                 /\ o["_name"] # None
                 /\ key \in DOMAIN Deref(m).concept_names
      \* concepts = copy.copy(mappings.concept_names[name_of_medication])
      found   == Alloc(h, SetCell(Deref(m).concept_names[key]))
      o1      == IF resolve THEN [o EXCEPT !["_cuis"] = found.addr] ELSE o
      h1      == IF resolve THEN found.heap ELSE h
      out     == copy_copy(h1, o1["_cuis"])
  IN IF m = NoContext
     THEN [err |-> "MappingContextError", obj |-> o, heap |-> h, ret |-> NullAddr]
     ELSE [err |-> NoError, obj |-> o1, heap |-> out.heap, ret |-> out.addr]

\* self._generic_formula = [self._normalize_drug_name(self.name)]
self_as_generic(o, h) ==
  LET made == Alloc(h, ListCell(<< _normalize_drug_name(o["_name"]) >>))
  IN IF o["_name"] = None
     THEN \* None.split
          [err |-> "AttributeError", obj |-> o, heap |-> h, concept |-> <<>>]
     ELSE [err |-> NoError, obj |-> [o EXCEPT !["_generic_formula"] = made.addr],
           heap |-> made.heap, concept |-> <<>>]

\* ParsedMedication.compute_generics(mappings): the set of possible results,
\* one for each element that concepts.pop() may remove; concept is the
\* removed element
compute_generics(o, h, mappings) ==
  LET m        == IF mappings = NoContext THEN o["_context"] ELSE mappings
      r        == CUIs(o, h, m)
      concepts == r.ret
      members  == r.heap[concepts].val
      after(concept) ==
        LET h2    == [r.heap EXCEPT ![concepts] = SetCell(members \ {concept})]
            names == Deref(m).formulas[concept]
            made  == Alloc(h2, ListCell([i \in 1..Len(names) |->
                                           _normalize_drug_name(names[i])]))
        IN IF concept \in DOMAIN Deref(m).formulas
           THEN [err |-> NoError, obj |-> [r.obj EXCEPT !["_generic_formula"] = made.addr],
                 heap |-> made.heap, concept |-> <<concept>>]
           ELSE \* KeyError from formulas[concept], handled
                [self_as_generic(r.obj, h2) EXCEPT !.concept = <<concept>>]
  IN IF m = NoContext
     THEN {[err |-> "MappingContextError", obj |-> o, heap |-> h, concept |-> <<>>]}
     ELSE IF concepts = NullAddr
     THEN {self_as_generic(r.obj, r.heap)}
     ELSE IF members = {}
     THEN \* KeyError from pop() on an empty set is handled, and the handler
          \* reads the local variable concept, which was never assigned
          {[err |-> "UnboundLocalError", obj |-> r.obj, heap |-> r.heap, concept |-> <<>>]}
     ELSE { after(concept) : concept \in members }

\* the generic_formula property: ret is the address of the returned list
generic_formula(o, h) ==
  LET give(r) == LET out == copy_copy(r.heap, r.obj["_generic_formula"])
                 IN IF r.err # NoError
                    THEN [err |-> r.err, obj |-> r.obj, heap |-> r.heap, ret |-> NullAddr]
                    ELSE [err |-> NoError, obj |-> r.obj, heap |-> out.heap, ret |-> out.addr]
  IN IF o["_generic_formula"] = NullAddr
     THEN IF o["_context"] = NoContext
          THEN {[err |-> "MappingContextError", obj |-> o, heap |-> h, ret |-> NullAddr]}
          ELSE { give(r) : r \in compute_generics(o, h, NoContext) }
     ELSE {give([err |-> NoError, obj |-> o, heap |-> h, concept |-> <<>>])}

\* the orders in which a set may be iterated
Orderings(S) == { q \in [1..Cardinality(S) -> S] : \A i, j \in DOMAIN q : i # j => q[i] # q[j] }

RECURSIVE Concat(_)
Concat(lists) == IF lists = <<>> THEN <<>> ELSE Head(lists) \o Concat(Tail(lists))

\* ParsedMedication.tradenames(mappings): the set of possible results, one
\* for each iteration order of the concept set; ret is the returned list
tradenames(o, h, mappings) ==
  LET m       == IF mappings = NoContext THEN o["_context"] ELSE mappings
      r       == CUIs(o, h, m)
      my_cuis == r.heap[r.ret].val
      edges(y) == LET hit(x) == x.relation = "tradename_of" /\ x._concept1 = y
                      sel    == SelectSeq(Deref(m).relations, hit)
                  IN [i \in 1..Len(sel) |-> sel[i]._concept2]
      flat(q)  == Concat([i \in 1..Len(q) |-> edges(q[i])])
      give(v)  == LET made == Alloc(r.heap, ListCell(v))
                  IN [err |-> NoError, obj |-> r.obj, heap |-> made.heap, ret |-> made.addr]
  IN IF r.err # NoError
     THEN {[err |-> r.err, obj |-> r.obj, heap |-> r.heap, ret |-> NullAddr]}
     ELSE IF r.ret = NullAddr
     THEN {give(<<>>)}
     ELSE IF my_cuis = {}
     THEN \* reduce() of an empty sequence with no initial value
          {[err |-> "TypeError", obj |-> r.obj, heap |-> r.heap, ret |-> NullAddr]}
     ELSE { give(flat(q)) : q \in Orderings(my_cuis) }

\* ------------------------------------------------------------------- inputs
\* raw lines handed to the constructor and to from_text
LineAsa   == <<"A","s","a"," ","8","1"," ","m","g"," ","T","a","b","s",";"," ","2"," ","t","a","b","s"," ","b","i","d",".">>
LineNoSep == <<"A","s","a"," ","8","1"," ","m","g"," ","T","a","b","s"," ","2"," ","t","a","b","s"," ","b","i","d">>
LinePcm   == <<" ","p","c","m"," "," ","1","/","2"," ","g"," ","c","a","p",";","3"," ","c","a","p"," ","t","w","o"," ","c","a","p"," ","b","i","d"," ","3","x">>

GoodLines == {LineAsa, LinePcm}
BadLines  == {LineNoSep}
Lines     == GoodLines \cup BadLines

\* values handed to the field setters
NameValues         == { <<"z","z">> }
DoseValues         == { <<"x">> }
UnitsValues        == { <<"m","l">> }
FormulationValues  == { <<"t","a","b"," ","c","a","p">> }
InstructionsValues == { <<"p","r","n">> }

\* every text of at most n characters over the alphabet cs
RECURSIVE Texts(_, _)
Texts(cs, n) == IF n = 0 THEN {<<>>}
                ELSE LET shorter == Texts(cs, n - 1)
                     IN shorter \cup { Append(t, c) : t \in shorter, c \in cs }

FieldAlphabet == {"a", "B", " ", ".", ","}

\* ------------------------------------------------------- state bookkeeping
\* The result of the last call: op the operation, arg its argument (<<>> when
\* it has none), err the exception it raised, ret the value it returned
\* (<<>> for none, else <<v>>, a container by its value), log what the call
\* reported about itself.
NoLog == [form |-> <<>>, built |-> {}, concept |-> <<>>]

Logged(op, arg, err, ret, log) == [op |-> op, arg |-> arg, err |-> err, ret |-> ret, log |-> log]

Outcome(op, arg, err, ret) == Logged(op, arg, err, ret, NoLog)

\* the form normalize_dose looked up and the pattern lists it built
DoseLog(r) == [NoLog EXCEPT !.form = r.form, !.built = r.built]

\* values first returned by each memoized accessor since the last explicit
\* recomputation
NothingObserved == [normalized_dose |-> <<>>, CUIs |-> <<>>, generic_formula |-> <<>>]

Observe(obs, which, ret) == IF obs[which] = <<>> THEN [obs EXCEPT ![which] = ret] ELSE obs

\* value of the container at address a, as a returned value
ValueAt(h, a) == IF a = NullAddr THEN <<>> ELSE <<h[a].val>>

\* Unreachable containers are reclaimed, and the reachable ones are kept at
\* the lowest addresses in the order record-before-caller (addresses are not
\* observable).  hd is the container the caller holds.
Reachable(o, hd) ==
  LET refs == IF HasAttr(o, "_cuis")
              THEN <<o["_cuis"], o["_generic_formula"], hd>> ELSE <<hd>>
      keep(acc, a) == IF a = NullAddr \/ \E i \in 1..Len(acc) : acc[i] = a
                      THEN acc ELSE Append(acc, a)
  IN IF Len(refs) = 1 THEN keep(<<>>, refs[1])
     ELSE keep(keep(keep(<<>>, refs[1]), refs[2]), refs[3])

Settle(o, h, hd) ==
  LET order   == Reachable(o, hd)
      at(a)   == IF a = NullAddr THEN NullAddr
                 ELSE CHOOSE i \in 1..Len(order) : order[i] = a
  IN [self |-> IF HasAttr(o, "_cuis")
               THEN [o EXCEPT !["_cuis"] = at(@), !["_generic_formula"] = at(@)]
               ELSE o,
      heap |-> [i \in Addr |-> IF i <= Len(order) THEN h[order[i]] ELSE FreeCell],
      held |-> at(hd)]

Commit(o, h, hd) ==
  LET s == Settle(o, h, hd)
  IN self' = s.self /\ heap' = s.heap /\ held' = s.held

Constructed == HasAttr(self, "_context")

\* the constructor's result for each input of the model, computed once
Constructed_from == [l \in Lines \cup {None}, m \in Contexts \cup {NoContext} |->
                       ParsedMedication__init__(l, m)]

\* ------------------------------------------------------------------ actions
\* m = ParsedMedication(med_line, context); when the constructor raises, the
\* caller keeps the record it had
Construct(med_line, context) ==
  \E r \in {Constructed_from[med_line, context]} :
     /\ IF r.err = NoError
        THEN Commit(r.obj, heap, held) /\ observed' = NothingObserved
        ELSE UNCHANGED <<self, heap, held, observed>>
     /\ outcome' = Outcome("__init__", <<med_line>>, r.err, <<>>)
     /\ UNCHANGED <<formulation_regexp_cache, times_regexp_cache, builds>>

\* m.from_text(med_line)
Call_from_text(med_line) ==
  /\ Constructed
  /\ \E r \in {from_text(self, med_line)} :
     /\ self' = r.obj
     /\ outcome' = Outcome("from_text", <<med_line>>, r.err, <<>>)
     /\ UNCHANGED <<heap, held, formulation_regexp_cache, times_regexp_cache,
                    builds, observed>>

\* m.<field> = value
SetField(field, value) ==
  /\ Constructed
  /\ self' = [self EXCEPT ![field] = _normalize_field(value)]
  /\ outcome' = Outcome("setter", <<>>, NoError, <<>>)
  /\ UNCHANGED <<heap, held, formulation_regexp_cache, times_regexp_cache,
                 builds, observed>>

Set_name(value)         == SetField("_name", value)
Set_dose(value)         == SetField("_dose", value)
Set_units(value)        == SetField("_units", value)
Set_formulation(value)  == SetField("_formulation", value)
Set_instructions(value) == SetField("_instructions", value)

\* m.mappings = mappings
Set_mappings(mappings) ==
  /\ Constructed
  /\ self' = [self EXCEPT !["_context"] = mappings]
  /\ outcome' = Outcome("mappings", <<mappings>>, NoError, <<>>)
  /\ UNCHANGED <<heap, held, formulation_regexp_cache, times_regexp_cache,
                 builds, observed>>

\* m.normalize_dose()
Call_normalize_dose ==
  /\ Constructed
  /\ \E r \in {normalize_dose(self, formulation_regexp_cache, times_regexp_cache, builds)} :
     /\ self' = r.obj
     /\ formulation_regexp_cache' = r.fc
     /\ times_regexp_cache' = r.tc
     /\ builds' = r.builds
     /\ outcome' = Logged("normalize_dose", <<>>, r.err, <<>>, DoseLog(r))
     /\ observed' = [observed EXCEPT !.normalized_dose = <<>>]
     /\ UNCHANGED <<heap, held>>

\* m.normalized_dose
Get_normalized_dose ==
  /\ Constructed
  /\ \E r \in {normalized_dose(self, formulation_regexp_cache, times_regexp_cache, builds)} :
     \E ret \in {IF r.err = NoError /\ r.ret # None THEN <<r.ret>> ELSE <<>>} :
     /\ self' = r.obj
     /\ formulation_regexp_cache' = r.fc
     /\ times_regexp_cache' = r.tc
     /\ builds' = r.builds
     /\ outcome' = Logged("normalized_dose", <<>>, r.err, ret, DoseLog(r))
     /\ observed' = Observe(observed, "normalized_dose", ret)
     /\ UNCHANGED <<heap, held>>

\* c = m.CUIs(mappings); the caller keeps the returned set
Call_CUIs(mappings) ==
  /\ Constructed
  /\ \E r \in {CUIs(self, heap, mappings)} :
     \E ret \in {ValueAt(r.heap, r.ret)} :
     /\ Commit(r.obj, r.heap, IF r.err = NoError THEN r.ret ELSE held)
     /\ outcome' = Outcome("CUIs", <<mappings>>, r.err, ret)
     /\ observed' = Observe(observed, "CUIs", ret)
     /\ UNCHANGED <<formulation_regexp_cache, times_regexp_cache, builds>>

\* m.compute_generics(mappings)
Call_compute_generics(mappings) ==
  /\ Constructed
  /\ \E r \in compute_generics(self, heap, mappings) :
       /\ Commit(r.obj, r.heap, held)
       /\ outcome' = Logged("compute_generics", <<mappings>>, r.err, <<>>,
                             [NoLog EXCEPT !.concept = r.concept])
  /\ observed' = [observed EXCEPT !.generic_formula = <<>>]
  /\ UNCHANGED <<formulation_regexp_cache, times_regexp_cache, builds>>

\* g = m.generic_formula; the caller keeps the returned list
Get_generic_formula ==
  /\ Constructed
  /\ \E r \in generic_formula(self, heap) :
       LET ret == ValueAt(r.heap, r.ret)
       IN /\ Commit(r.obj, r.heap, IF r.err = NoError THEN r.ret ELSE held)
          /\ outcome' = Outcome("generic_formula", <<>>, r.err, ret)
          /\ observed' = Observe(observed, "generic_formula", ret)
  /\ UNCHANGED <<formulation_regexp_cache, times_regexp_cache, builds>>

\* t = m.tradenames(mappings); the caller keeps the returned list
Call_tradenames(mappings) ==
  /\ Constructed
  /\ \E r \in tradenames(self, heap, mappings) :
       /\ Commit(r.obj, r.heap, IF r.err = NoError THEN r.ret ELSE held)
       /\ outcome' = Outcome("tradenames", <<mappings>>, r.err, ValueAt(r.heap, r.ret))
  /\ UNCHANGED <<formulation_regexp_cache, times_regexp_cache, builds, observed>>

\* the caller removes an element from the set or list it was handed
MutateHeld ==
  /\ held # NullAddr
  /\ \/ /\ heap[held].kind = "set"
        /\ \E x \in heap[held].val :
             heap' = [heap EXCEPT ![held] = SetCell(heap[held].val \ {x})]
     \/ /\ heap[held].kind = "list"
        /\ heap[held].val # <<>>
        /\ heap' = [heap EXCEPT ![held] =
                      ListCell(SubSeq(heap[held].val, 1, Len(heap[held].val) - 1))]
  /\ outcome' = Outcome("mutate", <<>>, NoError, <<>>)
  /\ UNCHANGED <<self, held, formulation_regexp_cache, times_regexp_cache,
                 builds, observed>>

\* _normalize_field applied to a text, or to its own last result
Apply_normalize_field ==
  /\ outcome.op \in {"text", "_normalize_field"}
  /\ outcome' = Outcome("_normalize_field", outcome.ret, NoError,
                        <<_normalize_field(outcome.ret[1])>>)
  /\ UNCHANGED <<self, heap, held, formulation_regexp_cache, times_regexp_cache,
                 builds, observed>>

\* ----------------------------------------------------------- specifications
Init ==
  /\ self = NoObject
  /\ heap = EmptyHeap
  /\ held = NullAddr
  /\ formulation_regexp_cache = EmptyDict
  /\ times_regexp_cache = EmptyDict
  /\ builds = EmptyDict
  /\ outcome = Outcome("start", <<>>, NoError, <<>>)
  /\ observed = NothingObserved

\* the record's text side: construction, from_text and the field setters
NextParse ==
  \/ \E l \in Lines \cup {None} : Construct(l, NoContext)
  \/ \E l \in Lines : Call_from_text(l)
  \/ \E v \in NameValues : Set_name(v)
  \/ \E v \in DoseValues : Set_dose(v)
  \/ \E v \in UnitsValues : Set_units(v)
  \/ \E v \in FormulationValues : Set_formulation(v)
  \/ \E v \in InstructionsValues : Set_instructions(v)

SpecParse == Init /\ [][NextParse]_vars

\* the Field Normalizer as a function
InitField ==
  /\ self = NoObject
  /\ heap = EmptyHeap
  /\ held = NullAddr
  /\ formulation_regexp_cache = EmptyDict
  /\ times_regexp_cache = EmptyDict
  /\ builds = EmptyDict
  /\ \E t \in Texts(FieldAlphabet, MaxLen) : outcome = Outcome("text", <<>>, NoError, <<t>>)
  /\ observed = NothingObserved

NextField == Apply_normalize_field

SpecField == InitField /\ [][NextField]_vars

\* dose normalization and the class-level Pattern Cache
NextDose ==
  \/ \E l \in GoodLines \cup {None} : Construct(l, NoContext)
  \/ \E v \in DoseValues : Set_dose(v)
  \/ \E v \in FormulationValues : Set_formulation(v)
  \/ \E v \in InstructionsValues : Set_instructions(v)
  \/ Call_normalize_dose
  \/ Get_normalized_dose

SpecDose == Init /\ [][NextDose]_vars

\* concept resolution against the Mapping Context
NextGeneric ==
  \/ \E l \in GoodLines \cup {None}, m \in Contexts \cup {NoContext} : Construct(l, m)
  \/ \E v \in NameValues : Set_name(v)
  \/ \E m \in Contexts \cup {NoContext} : Set_mappings(m)
  \/ \E m \in Contexts \cup {NoContext} : Call_CUIs(m)
  \/ \E m \in Contexts \cup {NoContext} : Call_compute_generics(m)
  \/ Get_generic_formula
  \/ \E m \in Contexts \cup {NoContext} : Call_tradenames(m)
  \/ MutateHeld

SpecGeneric == Init /\ [][NextGeneric]_vars

\* every operation of a record
Next ==
  \/ \E l \in Lines \cup {None}, m \in Contexts \cup {NoContext} : Construct(l, m)
  \/ \E l \in Lines : Call_from_text(l)
  \/ \E v \in NameValues : Set_name(v)
  \/ \E v \in DoseValues : Set_dose(v)
  \/ \E v \in UnitsValues : Set_units(v)
  \/ \E v \in FormulationValues : Set_formulation(v)
  \/ \E v \in InstructionsValues : Set_instructions(v)
  \/ \E m \in Contexts \cup {NoContext} : Set_mappings(m)
  \/ Call_normalize_dose
  \/ Get_normalized_dose
  \/ \E m \in Contexts \cup {NoContext} : Call_CUIs(m)
  \/ \E m \in Contexts \cup {NoContext} : Call_compute_generics(m)
  \/ Get_generic_formula
  \/ \E m \in Contexts \cup {NoContext} : Call_tradenames(m)
  \/ MutateHeld

Spec == Init /\ [][Next]_vars

\* the memoized values of one record under every setter and accessor
NextMemo ==
  \/ \E l \in {LineAsa} : Construct(l, "rxnorm")
  \/ \E v \in NameValues : Set_name(v)
  \/ \E v \in DoseValues : Set_dose(v)
  \/ \E v \in UnitsValues : Set_units(v)
  \/ \E v \in FormulationValues : Set_formulation(v)
  \/ \E v \in InstructionsValues : Set_instructions(v)
  \/ Call_normalize_dose
  \/ Get_normalized_dose
  \/ Call_CUIs(NoContext)
  \/ Call_compute_generics(NoContext)
  \/ Get_generic_formula
  \/ MutateHeld

SpecMemo == Init /\ [][NextMemo]_vars

\* ------------------------------------------------------------------- claims
Field(a) == self[a]

Unparsable(line) == medication_parser(_normalize_field(Strip(line, Whitespace))) = <<>>

\* C1: constructing a ParsedMedication from a line that does not match the
\* grammar raises no exception and yields a record with is_parsed false, the
\* five fields unset and normalized_text the normalization of the line.
C1_UnparsableLineConstructs ==
  (outcome.op = "__init__" /\ outcome.arg[1] # None /\ Unparsable(outcome.arg[1]))
    => /\ outcome.err = NoError
       /\ Constructed
       /\ Field("_parsed") = FALSE
       /\ \A a \in {"_name", "_dose", "_units", "_formulation", "_instructions"} :
            Field(a) = None
       /\ Field("_normalized_string")
            = _normalize_field(Strip(outcome.arg[1], Whitespace))

\* C10: is_parsed is true only if the current normalized_text matches the
\* grammar, and after a from_text call with is_parsed true the five fields
\* are the normalized groups captured from that text.
C10_ParsedAgreesWithText ==
  (Constructed /\ Field("_parsed"))
    => LET med == medication_parser(Field("_normalized_string"))
       IN /\ med # <<>>
          /\ outcome.op = "from_text"
               => /\ Field("_name") = _normalize_field(med[1][1])
                  /\ Field("_dose") = _normalize_field(med[1][2])
                  /\ Field("_units") = _normalize_field(med[1][3])
                  /\ Field("_formulation") = _normalize_field(med[1][4])
                  /\ Field("_instructions") = _normalize_field(med[1][5])

Punctuation == { UNDESIRABLE_PUNCTUATION[i] : i \in 1..Len(UNDESIRABLE_PUNCTUATION) }

\* C5: _normalize_field is idempotent, and its result neither starts nor ends
\* with an undesirable punctuation character.
C5_NormalizeIdempotent ==
  outcome.op = "_normalize_field"
    => LET t == outcome.ret[1]
       IN /\ _normalize_field(t) = t
          /\ t # <<>> => (t[1] \notin Punctuation /\ t[Len(t)] \notin Punctuation)

IsNumeric(t) == t # None /\ t # <<>> /\ \A i \in 1..Len(t) : t[i] \in DoseChars

DoseCalls == {"normalize_dose", "normalized_dose"}

\* C8: when the dose is non-numeric at composition time, normalize_dose (and
\* reading normalized_dose) raises no exception and leaves normalized_dose
\* unset.
C8_NonNumericDoseStaysUnset ==
  [][ ( /\ Constructed
        /\ Field("_formulation") # None /\ Field("_instructions") # None
        /\ Field("_dose") # None /\ ~IsNumeric(Field("_dose"))
        /\ Field("_norm_dose") = None
        /\ outcome'.op \in DoseCalls )
      => (outcome'.err = NoError /\ self'["_norm_dose"] = None) ]_vars

KnownIn(f) == { i \in 1..Len(physical_forms) : Contains(f, physical_forms[i]) }

Highest(S) == CHOOSE i \in S : \A j \in S : j <= i
Lowest(S)  == CHOOSE i \in S : \A j \in S : i <= j

\* C7 as stated: when several known forms are contained in the stored
\* formulation, normalize_dose looks up the LAST of them in list order, and
\* the stored formulation is unchanged.
C7_LastKnownFormLookedUp ==
  [][ ( /\ Constructed
        /\ outcome'.op = "normalize_dose" /\ outcome'.err = NoError
        /\ Cardinality(KnownIn(Field("_formulation"))) >= 2 )
      => /\ outcome'.log.form = <<physical_forms[Highest(KnownIn(Field("_formulation")))]>>
         /\ self'["_formulation"] = Field("_formulation") ]_vars

\* the form reached from known form i: the first later known form contained
\* in it takes over, and so on
RECURSIVE TakenOver(_)
TakenOver(i) ==
  LET later == { j \in (i + 1)..Len(physical_forms) :
                   Contains(physical_forms[i], physical_forms[j]) }
  IN IF later = {} THEN physical_forms[i] ELSE TakenOver(Lowest(later))

\* C7 amended: the lookup uses the FIRST known form contained in the stored
\* formulation, unless a later known form is contained in the form chosen so
\* far, which then takes over; an unknown formulation is looked up as it is;
\* the stored formulation is unchanged.
C7_FirstKnownFormUnlessTakenOver ==
  [][ ( /\ Constructed
        /\ outcome'.op = "normalize_dose" /\ outcome'.err = NoError )
      => /\ outcome'.log.form =
              << IF KnownIn(Field("_formulation")) = {} THEN Field("_formulation")
                 ELSE TakenOver(Lowest(KnownIn(Field("_formulation")))) >>
         /\ self'["_formulation"] = Field("_formulation") ]_vars

TabCap == <<"T","A","B"," ","C","A","P">>

C7_Witness ==
  /\ outcome.op = "normalize_dose" /\ outcome.err = NoError
  /\ Field("_formulation") = TabCap
  /\ outcome.log.form = << <<"T","A","B">> >>

PatternMatches(p, instructions) ==
  IF p[2] = -1 THEN re_findall_first(p[1], instructions) # <<>>
  ELSE Contains(instructions, p[1])

PatternValue(p, instructions) ==
  IF p[2] = -1 THEN ParseInt(re_findall_first(p[1], instructions)[1]) ELSE p[2]

\* the value given by the last matching pattern of the list, 1 when none matches
LastMatch(regexps, instructions) ==
  LET hits == { i \in 1..Len(regexps) : PatternMatches(regexps[i], instructions) }
  IN IF hits = {} THEN 1 ELSE PatternValue(regexps[Highest(hits)], instructions)

C4_BuiltOncePerFormulation ==
  [][ /\ \A k \in DOMAIN builds' : builds'[k] <= 1
      /\ \A k \in DOMAIN formulation_regexp_cache :
           /\ k \in DOMAIN formulation_regexp_cache'
           /\ formulation_regexp_cache'[k] = formulation_regexp_cache[k]
      /\ \A k \in DOMAIN times_regexp_cache :
           /\ k \in DOMAIN times_regexp_cache'
           /\ times_regexp_cache'[k] = times_regexp_cache[k] ]_vars

\* a normalize_dose call served from both caches, two formulations cached
C4_Witness ==
  /\ outcome.op = "normalize_dose" /\ outcome.err = NoError
  /\ outcome.log.built = {}
  /\ Cardinality(DOMAIN formulation_regexp_cache) >= 2
  /\ Cardinality(DOMAIN times_regexp_cache) >= 2

\* the record's memoized values, containers by value
Memoized(o, h) == << ValueAt(h, o["_cuis"]), ValueAt(h, o["_generic_formula"]),
                     o["_norm_dose"] >>

\* the call just made needs concept resolution and was given no context
CalledWithoutContext(out) ==
  \/ out.op = "generic_formula"
  \/ out.op \in {"CUIs", "compute_generics", "tradenames"} /\ out.arg = <<NoContext>>

\* C2 as stated: on a record without mapping context, each call of
\* generic_formula, CUIs(), compute_generics() and tradenames() made without
\* a context fails with MappingContextError and leaves the memoized values
\* unchanged.
C2_EveryCallFails ==
  [][ (Constructed /\ Field("_context") = NoContext /\ CalledWithoutContext(outcome'))
      => /\ outcome'.err = "MappingContextError"
         /\ Memoized(self', heap') = Memoized(self, heap) ]_vars

\* C2 amended: CUIs(), compute_generics() and tradenames() fail with
\* MappingContextError; generic_formula fails with it when no generic formula
\* is cached and otherwise returns the cached formula; the memoized values
\* are unchanged in every case.
C2_FailsUnlessFormulaCached ==
  [][ (Constructed /\ Field("_context") = NoContext /\ CalledWithoutContext(outcome'))
      => /\ IF outcome'.op = "generic_formula" /\ Field("_generic_formula") # NullAddr
            THEN /\ outcome'.err = NoError
                 /\ outcome'.ret = ValueAt(heap, Field("_generic_formula"))
            ELSE outcome'.err = "MappingContextError"
         /\ Memoized(self', heap') = Memoized(self, heap) ]_vars

\* a call refused for want of a context on a record whose formula is cached
C2_Witness ==
  /\ Constructed /\ Field("_context") = NoContext
  /\ Field("_generic_formula") # NullAddr
  /\ outcome.op = "tradenames" /\ outcome.arg = <<NoContext>>
  /\ outcome.err = "MappingContextError"

\* C3: on a record with a mapping context and no concepts resolved yet, when
\* the name is missing from concept_names, or its concept set is empty, or
\* the chosen concept has no ingredient list, compute_generics raises no
\* error and sets generic_formula to the one-element list of the
\* abbreviation-expanded normalized name.
C3_FallsBackToOwnName ==
  [][ ( /\ Constructed
        /\ Field("_context") # NoContext
        /\ Field("_name") # None
        /\ Field("_cuis") = NullAddr
        /\ outcome'.op = "compute_generics"
        /\ LET names == Deref(Field("_context")).concept_names
               key   == Lower(Field("_name"))
           IN \/ key \notin DOMAIN names
              \/ names[key] = {}
              \/ /\ outcome'.log.concept # <<>>
                 /\ outcome'.log.concept[1]
                      \notin DOMAIN Deref(Field("_context")).formulas )
      => /\ outcome'.err = NoError
         /\ ValueAt(heap', self'["_generic_formula"])
              = << << _normalize_drug_name(Field("_name")) >> >> ]_vars

Accessors == {"normalized_dose", "CUIs", "generic_formula"}

\* C9: once a memoized accessor has returned a value, every later read of it
\* returns an equal value, whatever setters were called and whatever
\* returned containers were changed meanwhile, until normalize_dose() or
\* compute_generics() is called explicitly.
C9_MemoizedValuesStable ==
  \A w \in Accessors :
    (outcome.op = w /\ outcome.err = NoError /\ outcome.ret # <<>> /\ observed[w] # <<>>)
      => outcome.ret = observed[w]

\* the generic formula of ASA read back after the name was set to ZZ
C9_Witness ==
  /\ Constructed /\ Field("_name") = ZZ
  /\ outcome.op = "generic_formula" /\ outcome.err = NoError
  /\ outcome.ret # <<>>
  /\ outcome.ret[1][1] = ASPIRIN

====
